---- MODULE Spec2Model ----
(***************************************************************************)
(* Model of the certbot-k8s charm (src/src/charm.py).                      *)
(*                                                                         *)
(* Every hook or action handler of the charm runs to completion before the *)
(* next one is dispatched, so each handler is one action.  A handler's     *)
(* calls to its collaborators (the cluster API, the workload container,    *)
(* the ingress relation data, HTTP) are recorded, in order, in the         *)
(* variable trace; the outcomes of those calls are inputs of the action.   *)
(*                                                                         *)
(* A cluster-API call, the HTTP GET and the certbot command can fail; the   *)
(* file transfers to and from the workload succeed, since the handler has  *)
(* found the workload connectable before it makes them.                    *)
(*                                                                         *)
(* Hostnames and secret names are sequences of one-character strings, so   *)
(* that the regular-expression substitution deriving the secret name is    *)
(* computed character by character.                                        *)
(***************************************************************************)
EXTENDS Naturals, Sequences, FiniteSets, TLC

VARIABLES
    ingresses,     \* model.relations["ingress"]: per relation, the
                   \* service-hostname this application wrote into its data
    config,        \* model.config: email, agree-tos, service-hostname, dry-run
    secrets,       \* the namespace's Secrets: name -> body
    status,        \* unit.status
    deferred,      \* number of deferred events waiting to be re-emitted
    creates,       \* per secret name, how many create calls were issued so
                   \* far and how many of them created the secret
    pass,          \* what the last handler saw and did (see NoPass)
    trace          \* the collaborator calls of the last handler, in order

vars == <<ingresses, config, secrets, status, deferred, creates, pass, trace>>

---------------------------------------------------------------------------
\* Bounds of the model.

\* At most this many ingress relations are ever joined at once.
MaxRelations == 2

\* At most this many deferred events wait at once.
MaxDeferred == 1

\* A create call for one secret name is counted up to this number.
MaxCreates == 2

\* The hostnames the derivation of the secret name is checked for have at
\* most this many characters.
MaxLen == 2

---------------------------------------------------------------------------
\* Values.

\* self.app.name
AppName == <<"c", "e", "r", "t", "b", "o", "t", "-", "k", "8", "s">>

\* The values the service-hostname option takes; <<>> is the unset option.
\* "a.b" and "a-b" differ only in a character the name derivation replaces.
Hostnames == { <<>>, <<"a", ".", "b">>, <<"a", "-", "b">> }

\* The values the email option takes; "" is the unset option.
Emails == { "", "foo@li.sh" }

Configs ==
    [email : Emails, agree_tos : BOOLEAN, service_hostname : Hostnames,
     dry_run : BOOLEAN]

\* Status codes of a cluster-API call: success, forbidden, any other error.
ApiOutcomes == { 200, 403, 500 }

\* Outcomes of requests.get: a response status, or 0 when the request itself
\* fails (the host cannot be resolved or reached) and requests raises.
GetOutcomes == { 200, 404, 0 }

\* Exit codes of the certbot command run in the workload.
ExecOutcomes == { 0, 1 }

\* The outcomes of the calls of one handler: container.can_connect(), the
\* listing of the secrets, requests.get, the certbot command, the creation of
\* the secret.  A handler makes these calls in this order and a call that
\* fails ends it, so the outcome of a call is drawn only where every earlier
\* call let the handler go on; the calls that are not made have the outcome
\* of success.
Envs ==
    { e \in [can_connect : BOOLEAN, list : ApiOutcomes, get : GetOutcomes,
             exec : ExecOutcomes, create : ApiOutcomes] :
        /\ ~e.can_connect => e.list = 200
        /\ (~e.can_connect \/ e.list # 200) => e.get = 200
        /\ (~e.can_connect \/ e.list # 200 \/ e.get # 200) => e.exec = 0
        /\ (~e.can_connect \/ e.list # 200 \/ e.get # 200 \/ e.exec # 0)
               => e.create = 200 }

NoArg == <<>>

Step(op, arg, rc) == [op |-> op, arg |-> arg, rc |-> rc]

NoError == [type |-> "none", status |-> 0, message |-> "", arg |-> NoArg]

Raise(type, code, message, arg) ==
    [type |-> type, status |-> code, message |-> message, arg |-> arg]

\* model.WaitingStatus / model.BlockedStatus / model.ActiveStatus.  A message
\* is its fixed text and the name (application or hostname) formatted into it.
WaitingStatus(message, arg) == [name |-> "waiting", message |-> message, arg |-> arg]
BlockedStatus(message, arg) == [name |-> "blocked", message |-> message, arg |-> arg]
ActiveStatus == [name |-> "active", message |-> "", arg |-> NoArg]
MaintenanceStatus == [name |-> "maintenance", message |-> "", arg |-> NoArg]

\* The evaluation of a handler that does not evaluate the status.
NoStatus == [name |-> "none", message |-> "", arg |-> NoArg]

---------------------------------------------------------------------------
\* Secret names.

Digits == { "0", "1", "2", "3", "4", "5", "6", "7", "8", "9" }

LowerCase ==
    { "a", "b", "c", "d", "e", "f", "g", "h", "i", "j", "k", "l", "m",
      "n", "o", "p", "q", "r", "s", "t", "u", "v", "w", "x", "y", "z" }

UpperCase ==
    { "A", "B", "C", "D", "E", "F", "G", "H", "I", "J", "K", "L", "M",
      "N", "O", "P", "Q", "R", "S", "T", "U", "V", "W", "X", "Y", "Z" }

\* The substitution with the pattern "[.]": only the dots become "-".
_SECRET_NAME_REGEX_sub_dots(hostname) ==
    [i \in 1..Len(hostname) |->
        IF hostname[i] # "." THEN hostname[i] ELSE "-"]

\* _SECRET_NAME_REGEX.sub("-", hostname): every character outside
\* [0-9a-zA-Z] becomes "-".
_SECRET_NAME_REGEX_sub(hostname) ==
    [i \in 1..Len(hostname) |->
        IF hostname[i] \in Digits \cup LowerCase \cup UpperCase
        THEN hostname[i] ELSE "-"]

\* "%s-tls" % _SECRET_NAME_REGEX.sub("-", hostname)
secret_name(hostname) ==
    _SECRET_NAME_REGEX_sub(hostname) \o <<"-", "t", "l", "s">>

---------------------------------------------------------------------------
\* The running handler.  o is what the handler has done so far: the unit
\* status, relation data and secrets as it left them, its calls in
\* order (the pushes of files among them), the command it ran, how often it deferred its event, the exception
\* that ended it (NoError while it runs), whether it has authenticated, what
\* _refresh_charm_status made of the unit, and the result of an action.

Begin(st, rels, secs) ==
    [status |-> st, ingresses |-> rels, secrets |-> secs,
     trace |-> <<>>, command |-> <<>>, deferred |-> 0, raised |-> NoError,
     authed |-> FALSE, evaluated |-> NoStatus, result |-> NoArg]

Call(o, op, arg, rc) == [o EXCEPT !.trace = Append(@, Step(op, arg, rc))]

Raising(o, type, code) == [o EXCEPT !.raised = Raise(type, code, "", NoArg)]

\* base64.b64encode(x.encode("utf-8")).decode("utf-8")
b64encode(x) == [b64 |-> x]

\* What container.pull(<_LETS_ENCRYPT_BASE_DIR>/<hostname>/<file>).read()
\* returns: the file certbot wrote for that hostname.
Pulled(hostname, file) == [text |-> file, host |-> hostname]

\* The fixed strings a dry run returns.
Placeholder(text) == [text |-> text, host |-> NoArg]

\* k8s_auth
k8s_auth(o) ==
    IF o.authed THEN o
    ELSE [Call(o, "load_incluster_config", NoArg, 0) EXCEPT !.authed = TRUE]

\* _secret_exists finding no secret whatever the listing holds.
_secret_exists_never(name, o, env) ==
    LET a == Call(k8s_auth(o), "list_namespaced_secret", name, env.list)
    IN  [o |-> IF env.list = 200 THEN a
               ELSE Raising(a, "ApiException", env.list),
         value |-> FALSE]

\* _secret_exists: the handler after the call, and the value returned when
\* the listing succeeds.
_secret_exists(name, o, env) ==
    LET a == Call(k8s_auth(o), "list_namespaced_secret", name, env.list)
    IN  [o |-> IF env.list = 200 THEN a
               ELSE Raising(a, "ApiException", env.list),
         value |-> name \in DOMAIN o.secrets]

\* _create_secret.  A create call for a name the namespace holds is refused
\* by the API server with 409 Conflict.
_create_secret(name, cert, key, o, env) ==
    LET rc == IF env.create = 200 /\ name \in DOMAIN o.secrets
              THEN 409 ELSE env.create
        a == Call(k8s_auth(o), "create_namespaced_secret", name, rc)
        body == [type |-> "kubernetes.io/tls",
                 tls_crt |-> b64encode(cert),
                 tls_key |-> b64encode(key)]
    IN  IF rc # 200 THEN Raising(a, "ApiException", rc)
        ELSE [a EXCEPT !.secrets =
                 [n \in DOMAIN o.secrets \cup {name} |->
                     IF n = name THEN body ELSE o.secrets[n]]]

\* _create_certificate pulling the files of the hostname after a dry run
\* too.
_create_certificate_always_pull(hostname, c, o, env) ==
    LET command ==
            <<"certbot", "certonly", "--agree-tos", "-n", "-m", c.email,
              "-d", hostname, "--webroot", "--webroot-path",
              "/usr/share/nginx/html">>
            \o (IF c.dry_run THEN <<"--dry-run">> ELSE <<>>)
        a == [Call(o, "exec", hostname, env.exec) EXCEPT !.command = command]
    IN  IF env.exec # 0
        THEN [o |-> Raising(a, "ExecError", env.exec),
              cert |-> Placeholder(""), key |-> Placeholder("")]
        ELSE [o |-> Call(Call(a, "pull fullchain.pem", hostname, 0),
                         "pull privkey.pem", hostname, 0),
              cert |-> Pulled(hostname, "fullchain.pem"),
              key |-> Pulled(hostname, "privkey.pem")]

\* _create_certificate: the handler after it, and the pair it returns.
_create_certificate(hostname, c, o, env) ==
    LET command ==
            <<"certbot", "certonly", "--agree-tos", "-n", "-m", c.email,
              "-d", hostname, "--webroot", "--webroot-path",
              "/usr/share/nginx/html">>
            \o (IF c.dry_run THEN <<"--dry-run">> ELSE <<>>)
        a == [Call(o, "exec", hostname, env.exec) EXCEPT !.command = command]
    IN  IF env.exec # 0
        THEN [o |-> Raising(a, "ExecError", env.exec),
              cert |-> Placeholder(""), key |-> Placeholder("")]
        ELSE IF c.dry_run
        THEN [o |-> a, cert |-> Placeholder("fake-cert"),
              key |-> Placeholder("fake-key")]
        ELSE [o |-> Call(Call(a, "pull fullchain.pem", hostname, 0),
                         "pull privkey.pem", hostname, 0),
              cert |-> Pulled(hostname, "fullchain.pem"),
              key |-> Pulled(hostname, "privkey.pem")]

\* self.ingress.update_config({"service-hostname": value}): the value is
\* written into the application's data of the ingress relation.
update_config(value, o) ==
    [Call(o, "update_config", value, 0) EXCEPT
        !.ingresses = IF Len(@) = 1 THEN <<value>> ELSE @]

\* _setup_ingress_check_file
_setup_ingress_check_file(o) == Call(o, "push foo.test", NoArg, 0)

\* _setup_ingress_route reporting the relation as updated every time.
_setup_ingress_route_always_updated(hostname, o) ==
    LET a == Call(o, "get_relation", NoArg, Len(o.ingresses))
    IN  IF Len(o.ingresses) = 0
        THEN [o |-> Raising(a, "AttributeError", 0), value |-> FALSE]
        ELSE IF Len(o.ingresses) > 1
        THEN [o |-> Raising(a, "TooManyRelatedAppsError", 0), value |-> FALSE]
        ELSE [o |-> _setup_ingress_check_file(update_config(hostname, a)),
              value |-> TRUE]

\* _setup_ingress_route: the handler after it, and relation_updated.
\* model.get_relation returns None without a relation and raises with
\* several of them.
_setup_ingress_route(hostname, o) ==
    LET a == Call(o, "get_relation", NoArg, Len(o.ingresses))
    IN  IF Len(o.ingresses) = 0
        THEN [o |-> Raising(a, "AttributeError", 0), value |-> FALSE]
        ELSE IF Len(o.ingresses) > 1
        THEN [o |-> Raising(a, "TooManyRelatedAppsError", 0), value |-> FALSE]
        ELSE [o |-> _setup_ingress_check_file(update_config(hostname, a)),
              value |-> o.ingresses[1] # hostname]

\* _check_ingress_route taking any response for a success.
_check_ingress_route_any_response(hostname, o, env) ==
    LET a == Call(o, "requests.get", hostname, env.get)
    IN  [o |-> IF env.get = 0 THEN Raising(a, "ConnectionError", 0) ELSE a,
         value |-> env.get # 0]

\* _check_ingress_route
_check_ingress_route(hostname, o, env) ==
    LET a == Call(o, "requests.get", hostname, env.get)
    IN  [o |-> IF env.get = 0 THEN Raising(a, "ConnectionError", 0) ELSE a,
         value |-> env.get = 200]

\* event.defer()
Defer(o) == [o EXCEPT !.deferred = @ + 1]

\* _ensure_certificate without the teardown of the route.
_ensure_certificate_issue_no_teardown(hostname, c, o, env) ==
    LET a == [o EXCEPT !.status =
                 WaitingStatus("Generating CA-verified certificate for %s",
                               hostname)]
        g == _create_certificate(hostname, c, a, env)
        s == IF g.o.raised # NoError THEN g.o
             ELSE _create_secret(secret_name(hostname), g.cert, g.key, g.o, env)
    IN  IF s.raised # NoError THEN s
        ELSE [s EXCEPT !.status = ActiveStatus]

\* _ensure_certificate leaving the status of the generation after the
\* teardown.
_ensure_certificate_issue_stays_waiting(hostname, c, o, env) ==
    LET a == [o EXCEPT !.status =
                 WaitingStatus("Generating CA-verified certificate for %s",
                               hostname)]
        g == _create_certificate(hostname, c, a, env)
        s == IF g.o.raised # NoError THEN g.o
             ELSE _create_secret(secret_name(hostname), g.cert, g.key, g.o, env)
    IN  IF s.raised # NoError THEN s
        ELSE update_config(AppName, s)

\* _ensure_certificate, from "Generating CA-verified certificate" on: the
\* certificate, the secret, the teardown of the route.
_ensure_certificate_issue(hostname, c, o, env) ==
    LET a == [o EXCEPT !.status =
                 WaitingStatus("Generating CA-verified certificate for %s",
                               hostname)]
        g == _create_certificate(hostname, c, a, env)
        s == IF g.o.raised # NoError THEN g.o
             ELSE _create_secret(secret_name(hostname), g.cert, g.key, g.o, env)
    IN  IF s.raised # NoError THEN s
        ELSE [update_config(AppName, s) EXCEPT !.status = ActiveStatus]

\* _ensure_certificate going on to the certificate in the handler that set
\* up the route.
_ensure_certificate_challenge_no_defer(hostname, c, o, env) ==
    LET r == _setup_ingress_route(hostname, o)
        k == _check_ingress_route(hostname, r.o, env)
    IN  IF r.o.raised # NoError THEN r.o
        ELSE IF k.o.raised # NoError THEN k.o
        ELSE IF ~k.value
        THEN Defer([k.o EXCEPT !.status =
                 WaitingStatus("Cannot reach test file using Ingress Route. Retrying.",
                               NoArg)])
        ELSE _ensure_certificate_issue(hostname, c, k.o, env)

\* _ensure_certificate deferring without a Waiting status when the probe
\* is not answered with 200.
_ensure_certificate_challenge_quiet_retry(hostname, c, o, env) ==
    LET r == _setup_ingress_route(hostname, o)
        k == _check_ingress_route(hostname, r.o, env)
    IN  IF r.o.raised # NoError THEN r.o
        ELSE IF r.value
        THEN Defer([r.o EXCEPT !.status =
                 WaitingStatus("Setting up an Ingress Route for %s's HTTP Challenge.",
                               hostname)])
        ELSE IF k.o.raised # NoError THEN k.o
        ELSE IF ~k.value THEN Defer(k.o)
        ELSE _ensure_certificate_issue(hostname, c, k.o, env)

\* _ensure_certificate, from the set-up of the ingress route on.
_ensure_certificate_challenge(hostname, c, o, env) ==
    LET r == _setup_ingress_route(hostname, o)
        k == _check_ingress_route(hostname, r.o, env)
    IN  IF r.o.raised # NoError THEN r.o
        ELSE IF r.value
        THEN Defer([r.o EXCEPT !.status =
                 WaitingStatus("Setting up an Ingress Route for %s's HTTP Challenge.",
                               hostname)])
        ELSE IF k.o.raised # NoError THEN k.o
        ELSE IF ~k.value
        THEN Defer([k.o EXCEPT !.status =
                 WaitingStatus("Cannot reach test file using Ingress Route. Retrying.",
                               NoArg)])
        ELSE _ensure_certificate_issue(hostname, c, k.o, env)

\* _ensure_certificate without the return for a secret that exists.
_ensure_certificate_no_return(hostname, c, o, env) ==
    LET a == Call(o, "_ensure_certificate", hostname, 0)
        e == _secret_exists(secret_name(hostname), a, env)
    IN  IF hostname = <<>> THEN a
        ELSE IF e.o.raised # NoError THEN e.o
        ELSE _ensure_certificate_challenge(hostname, c, e.o, env)

\* _ensure_certificate looking for the secret before it looks at the
\* hostname.
_ensure_certificate_list_first(hostname, c, o, env) ==
    LET a == Call(o, "_ensure_certificate", hostname, 0)
        e == _secret_exists(secret_name(hostname), a, env)
    IN  IF e.o.raised # NoError THEN e.o
        ELSE IF hostname = <<>> THEN e.o
        ELSE IF e.value THEN e.o
        ELSE _ensure_certificate_challenge(hostname, c, e.o, env)

\* _ensure_certificate returning for a secret that exists only while
\* dry-run is set.
_ensure_certificate_return_on_dry_run(hostname, c, o, env) ==
    LET a == Call(o, "_ensure_certificate", hostname, 0)
        e == _secret_exists(secret_name(hostname), a, env)
    IN  IF hostname = <<>> THEN a
        ELSE IF e.o.raised # NoError THEN e.o
        ELSE IF e.value /\ c.dry_run THEN e.o
        ELSE _ensure_certificate_challenge(hostname, c, e.o, env)

\* _ensure_certificate
_ensure_certificate(hostname, c, o, env) ==
    LET a == Call(o, "_ensure_certificate", hostname, 0)
        e == _secret_exists(secret_name(hostname), a, env)
    IN  IF hostname = <<>> THEN a
        ELSE IF e.o.raised # NoError THEN e.o
        ELSE IF e.value THEN e.o
        ELSE _ensure_certificate_challenge(hostname, c, e.o, env)

\* _refresh_charm_status with the configuration checked before the ingress
\* relations.
_refresh_charm_status_config_first(connectable, rels, c) ==
    IF ~connectable
    THEN WaitingStatus("Waiting for Pebble to be ready.", NoArg)
    ELSE IF c.email = ""
    THEN BlockedStatus("Please configure an email.", NoArg)
    ELSE IF ~c.agree_tos
    THEN BlockedStatus("Let's Encrypt requires an agreement to their Terms of Service. Run juju config %s agree-tos=true",
                       AppName)
    ELSE IF Len(rels) = 0
    THEN BlockedStatus("Needs an ingress relation.", NoArg)
    ELSE IF Len(rels) > 1
    THEN BlockedStatus("Too many ingress relations.", NoArg)
    ELSE ActiveStatus

\* _refresh_charm_status without the check for several ingress relations.
_refresh_charm_status_some_relation(connectable, rels, c) ==
    IF ~connectable
    THEN WaitingStatus("Waiting for Pebble to be ready.", NoArg)
    ELSE IF Len(rels) = 0
    THEN BlockedStatus("Needs an ingress relation.", NoArg)
    ELSE IF c.email = ""
    THEN BlockedStatus("Please configure an email.", NoArg)
    ELSE IF ~c.agree_tos
    THEN BlockedStatus("Let's Encrypt requires an agreement to their Terms of Service. Run juju config %s agree-tos=true",
                       AppName)
    ELSE ActiveStatus

\* _refresh_charm_status: the status it gives the unit.  It returns True
\* with ActiveStatus and False with every other.
_refresh_charm_status(connectable, rels, c) ==
    IF ~connectable
    THEN WaitingStatus("Waiting for Pebble to be ready.", NoArg)
    ELSE IF Len(rels) = 0
    THEN BlockedStatus("Needs an ingress relation.", NoArg)
    ELSE IF Len(rels) > 1
    THEN BlockedStatus("Too many ingress relations.", NoArg)
    ELSE IF c.email = ""
    THEN BlockedStatus("Please configure an email.", NoArg)
    ELSE IF ~c.agree_tos
    THEN BlockedStatus("Let's Encrypt requires an agreement to their Terms of Service. Run juju config %s agree-tos=true",
                       AppName)
    ELSE ActiveStatus

\* The except clause without the test of the status of the exception.
_on_config_changed_except_any(o) ==
    IF o.raised.type = "ApiException"
    THEN [o EXCEPT !.status =
             BlockedStatus("Insufficient permissions, try juju trust %s --scope=cluster",
                           AppName),
          !.raised = NoError]
    ELSE o

\* The except clause deferring the event for a retry after a 403.
_on_config_changed_except_defers(o) ==
    IF o.raised.type = "ApiException" /\ o.raised.status = 403
    THEN Defer([o EXCEPT !.status =
             BlockedStatus("Insufficient permissions, try juju trust %s --scope=cluster",
                           AppName),
          !.raised = NoError])
    ELSE o

\* The except clause of _on_config_changed.  (The source's message sets the
\* juju command in backquotes.)
_on_config_changed_except(o) ==
    IF o.raised.type = "ApiException" /\ o.raised.status = 403
    THEN [o EXCEPT !.status =
             BlockedStatus("Insufficient permissions, try juju trust %s --scope=cluster",
                           AppName),
          !.raised = NoError]
    ELSE o

\* _on_config_changed ensuring the certificate whatever the status is.
_on_config_changed_unguarded(c, o, env) ==
    LET st == _refresh_charm_status(env.can_connect, o.ingresses, c)
        a == [o EXCEPT !.status = st, !.evaluated = st]
    IN  _on_config_changed_except(
            _ensure_certificate(c.service_hostname, c, a, env))

\* _on_config_changed, run on the unit as o describes it.
_on_config_changed(c, o, env) ==
    LET st == _refresh_charm_status(env.can_connect, o.ingresses, c)
        a == [o EXCEPT !.status = st, !.evaluated = st]
    IN  IF st = ActiveStatus
        THEN _on_config_changed_except(
                 _ensure_certificate(c.service_hostname, c, a, env))
        ELSE a

\* _on_certbot_nginx_pebble_ready: the layer is added, its services are
\* started and the status is refreshed.
_on_certbot_nginx_pebble_ready(c, o, env) ==
    LET a == Call(Call(o, "add_layer", NoArg, 0), "autostart", NoArg, 0)
        st == _refresh_charm_status(env.can_connect, o.ingresses, c)
    IN  [a EXCEPT !.status = st, !.evaluated = st]

\* _on_get_secret_name_action with any() for all(): one of email and
\* agree-tos is enough.
_on_get_secret_name_action_any(c, o, env) ==
    LET name == secret_name(c.service_hostname)
        e == _secret_exists(name, o, env)
    IN  IF ~(c.email # "" \/ c.agree_tos)
        THEN [o EXCEPT !.raised =
                 Raise("Exception",  0,
                       "Required configuration options are not set. Check the charm status.",
                       NoArg)]
        ELSE IF c.service_hostname = <<>>
        THEN [o EXCEPT !.raised =
                 Raise("Exception", 0, "service-hostname is not set.", NoArg)]
        ELSE IF e.o.raised # NoError THEN e.o
        ELSE IF ~e.value
        THEN [e.o EXCEPT !.raised =
                 Raise("Exception", 0, "Secret for '%s' does not exist.",
                       c.service_hostname)]
        ELSE [e.o EXCEPT !.result = name]

\* _on_get_secret_name_action looking for the secret before it looks at
\* the options.
_on_get_secret_name_action_list_first(c, o, env) ==
    LET name == secret_name(c.service_hostname)
        e == _secret_exists(name, o, env)
    IN  IF e.o.raised # NoError THEN e.o
        ELSE IF ~(c.email # "" /\ c.agree_tos)
        THEN [e.o EXCEPT !.raised =
                 Raise("Exception",  0,
                       "Required configuration options are not set. Check the charm status.",
                       NoArg)]
        ELSE IF c.service_hostname = <<>>
        THEN [e.o EXCEPT !.raised =
                 Raise("Exception", 0, "service-hostname is not set.", NoArg)]
        ELSE IF ~e.value
        THEN [e.o EXCEPT !.raised =
                 Raise("Exception", 0, "Secret for '%s' does not exist.",
                       c.service_hostname)]
        ELSE [e.o EXCEPT !.result = name]

\* _on_get_secret_name_action
_on_get_secret_name_action(c, o, env) ==
    LET name == secret_name(c.service_hostname)
        e == _secret_exists(name, o, env)
    IN  IF ~(c.email # "" /\ c.agree_tos)
        THEN [o EXCEPT !.raised =
                 Raise("Exception",  0,
                       "Required configuration options are not set. Check the charm status.",
                       NoArg)]
        ELSE IF c.service_hostname = <<>>
        THEN [o EXCEPT !.raised =
                 Raise("Exception", 0, "service-hostname is not set.", NoArg)]
        ELSE IF e.o.raised # NoError THEN e.o
        ELSE IF ~e.value
        THEN [e.o EXCEPT !.raised =
                 Raise("Exception", 0, "Secret for '%s' does not exist.",
                       c.service_hostname)]
        ELSE [e.o EXCEPT !.result = name]

---------------------------------------------------------------------------
\* The renew-certificate action.  Its handler is not part of charm.py; it
\* is taken from the specification and from the tests of the repository
\* (test_renew_certificate, test_generate_certificate_and_secret).

\* The number of times the action checks the route before it gives up.
RouteCheckAttempts == 60

\* How many checks of the route fail before one succeeds: none, one, all
\* but the last, and all of them.
RouteFailures == { 0, 1, RouteCheckAttempts - 1, RouteCheckAttempts }

\* The outcomes of the calls of the action: whether the hostname resolves,
\* how many checks of the route fail before one succeeds, the certbot
\* command, the listing of the secrets, and the creation or replacement of
\* the secret.
RenewEnvs ==
    { e \in [can_connect : {TRUE}, resolve : BOOLEAN,
             fails : RouteFailures, get : {200},
             exec : ExecOutcomes, list : ApiOutcomes, create : ApiOutcomes] :
        /\ ~e.resolve => e.fails = 0
        /\ (~e.resolve \/ e.fails = RouteCheckAttempts) => e.exec = 0
        /\ (~e.resolve \/ e.fails = RouteCheckAttempts \/ e.exec # 0)
               => e.list = 200
        /\ (~e.resolve \/ e.fails = RouteCheckAttempts \/ e.exec # 0
                \/ e.list # 200) => e.create = 200 }

\* _resolve_hostname
_resolve_hostname(hostname, o, env) ==
    [o |-> Call(o, "gethostbyname", hostname, IF env.resolve THEN 0 ELSE 1),
     value |-> env.resolve]

\* The checks of the route from the attempt-th on: the handler after them,
\* and whether one of them succeeded.
RECURSIVE CheckRouteFrom(_, _, _, _)
CheckRouteFrom(attempt, hostname, o, env) ==
    IF attempt > RouteCheckAttempts THEN [o |-> o, value |-> FALSE]
    ELSE LET k == _check_ingress_route(hostname, o,
                      [env EXCEPT !.get = IF attempt > env.fails
                                          THEN 200 ELSE 404])
         IN  IF k.o.raised # NoError \/ k.value THEN k
             ELSE CheckRouteFrom(attempt + 1, hostname, k.o, env)

\* The replacement of a secret in place.
_replace_secret(name, cert, key, o, env) ==
    LET a == Call(k8s_auth(o), "replace_namespaced_secret", name, env.create)
        body == [type |-> "kubernetes.io/tls",
                 tls_crt |-> b64encode(cert),
                 tls_key |-> b64encode(key)]
    IN  IF env.create # 200 THEN Raising(a, "ApiException", env.create)
        ELSE [a EXCEPT !.secrets =
                 [n \in DOMAIN o.secrets \cup {name} |->
                     IF n = name THEN body ELSE o.secrets[n]]]

\* _generate_certificate_and_secret: the certificate, then the secret,
\* created when the namespace does not hold it and replaced when it does.
_generate_certificate_and_secret(hostname, name, c, o, env) ==
    LET g == _create_certificate(hostname, c, o, env)
        e == _secret_exists(name, g.o, env)
    IN  IF g.o.raised # NoError THEN g.o
        ELSE IF e.o.raised # NoError THEN e.o
        ELSE IF e.value THEN _replace_secret(name, g.cert, g.key, e.o, env)
        ELSE _create_secret(name, g.cert, g.key, e.o, env)

\* _on_renew_certificate_action
_on_renew_certificate_action(c, o, env) ==
    LET hostname == c.service_hostname
        d == _resolve_hostname(hostname, o, env)
        r == _setup_ingress_route(hostname, d.o)
        k == CheckRouteFrom(1, hostname, r.o, env)
        g == _generate_certificate_and_secret(hostname, secret_name(hostname),
                                              c, k.o, env)
    IN  IF hostname = <<>>
        THEN [o EXCEPT !.raised =
                 Raise("CertbotK8sError", 0, "service-hostname is not set.",
                       NoArg)]
        ELSE IF ~d.value
        THEN [d.o EXCEPT !.raised =
                 Raise("CertbotK8sError", 0, "Cannot resolve hostname: '%s'",
                       hostname)]
        ELSE IF r.o.raised # NoError THEN r.o
        ELSE IF k.o.raised # NoError THEN k.o
        ELSE IF ~k.value
        THEN [k.o EXCEPT !.raised =
                 Raise("CertbotK8sError", 0,
                       "Cannot reach test file using Ingress Route.", NoArg)]
        ELSE IF g.raised # NoError THEN g
        ELSE [g EXCEPT !.result = <<"Certificate renewed for ">> \o hostname]

---------------------------------------------------------------------------
\* The state machine.

\* The names of the secrets of the hostnames.
SecretNames == { secret_name(h) : h \in Hostnames \ {<<>>} }

\* model.config before any option is set.
DefaultConfig ==
    [email |-> "", agree_tos |-> FALSE, service_hostname |-> <<>>,
     dry_run |-> FALSE]

\* The record of a handler: which handler ran, the relation data and the
\* secrets it found (pre), the connectivity of the workload it was told,
\* and what it made of them.  The configuration it read is config.
NoPass ==
    [handler |-> "none", can_connect |-> FALSE,
     pre |-> [ingresses |-> <<>>, secrets |-> <<>>],
     evaluated |-> NoStatus, command |-> <<>>, deferred |-> 0,
     raised |-> NoError, result |-> NoArg]

Init ==
    /\ ingresses = <<>>
    /\ config = DefaultConfig
    /\ secrets = <<>>
    /\ status = MaintenanceStatus
    /\ deferred = 0
    /\ creates = [n \in SecretNames |-> [issued |-> 0, created |-> 0]]
    /\ pass = NoPass
    /\ trace = <<>>

\* Whether the handler o issued a create call for the secret n, and whether
\* the call created the secret.
Issued(o, n) ==
    \E i \in 1..Len(o.trace) :
        o.trace[i].op = "create_namespaced_secret" /\ o.trace[i].arg = n

Created(o, n) ==
    \E i \in 1..Len(o.trace) :
        /\ o.trace[i].op = "create_namespaced_secret"
        /\ o.trace[i].arg = n
        /\ o.trace[i].rc = 200

\* The handler `handler` has run with the relations rels and the
\* configuration c, `queued` events were deferred besides its own, and o is
\* what the handler did: the unit becomes what the handler left.
Completes(handler, c, rels, queued, o, env) ==
    /\ queued + o.deferred <= MaxDeferred
    /\ \A n \in SecretNames : Issued(o, n) => creates[n].issued < MaxCreates
    /\ config' = c
    /\ ingresses' = o.ingresses
    /\ secrets' = o.secrets
    /\ status' = o.status
    /\ deferred' = queued + o.deferred
    /\ creates' =
           [n \in SecretNames |->
               [issued |-> creates[n].issued + (IF Issued(o, n) THEN 1 ELSE 0),
                created |-> creates[n].created
                                + (IF Created(o, n) THEN 1 ELSE 0)]]
    /\ trace' = o.trace
    /\ pass' =
           [handler |-> handler, can_connect |-> env.can_connect,
            pre |-> [ingresses |-> rels, secrets |-> secrets],
            evaluated |-> o.evaluated, command |-> o.command,
            deferred |-> o.deferred, raised |-> o.raised,
            result |-> o.result]

\* The configurations juju config makes of c by setting one option, and c.
Reconfigured(c) ==
    { d \in Configs :
        Cardinality({ k \in DOMAIN c : d[k] # c[k] }) <= 1 }

\* The config-changed hook: the options take the values c.
ConfigChanged ==
    \E c \in Reconfigured(config), env \in Envs :
        Completes("_on_config_changed", c, ingresses, deferred,
                  _on_config_changed(c, Begin(status, ingresses, secrets), env),
                  env)

\* The ingress relation-joined hook: one more ingress relation, whose data
\* holds the service-hostname the charm hands to IngressRequires, the
\* application's name.
RelationJoined ==
    \E env \in Envs :
        /\ Len(ingresses) < MaxRelations
        /\ Completes("_on_config_changed", config,
                     Append(ingresses, AppName), deferred,
                     _on_config_changed(config,
                         Begin(status, Append(ingresses, AppName), secrets),
                         env),
                     env)

\* rels without its i-th relation.
Remove(rels, i) ==
    [j \in 1..(Len(rels) - 1) |-> IF j < i THEN rels[j] ELSE rels[j + 1]]

\* The ingress relation-broken hook: one ingress relation less.
RelationBroken ==
    \E i \in 1..Len(ingresses), env \in Envs :
        Completes("_on_config_changed", config, Remove(ingresses, i), deferred,
                  _on_config_changed(config,
                      Begin(status, Remove(ingresses, i), secrets), env),
                  env)

\* A deferred event is emitted again, when the next hook is dispatched.
ReemitDeferred ==
    \E env \in Envs :
        /\ deferred > 0
        /\ Completes("_on_config_changed", config, ingresses, deferred - 1,
                     _on_config_changed(config,
                         Begin(status, ingresses, secrets), env),
                     env)

\* The outcomes of a handler that asks only for the workload's connectivity,
\* and of one that only lists the secrets.
ConnectEnvs == { e \in Envs : e.list = 200 /\ e.get = 200 /\ e.exec = 0 /\ e.create = 200 }

ListEnvs == { e \in Envs : e.can_connect /\ e.get = 200 /\ e.exec = 0 /\ e.create = 200 }

\* The pebble-ready hook of the certbot-nginx container.
PebbleReady ==
    \E env \in ConnectEnvs :
        Completes("_on_certbot_nginx_pebble_ready", config, ingresses, deferred,
                  _on_certbot_nginx_pebble_ready(config,
                      Begin(status, ingresses, secrets), env),
                  env)

\* The get-secret-name action.
GetSecretNameAction ==
    \E env \in ListEnvs :
        Completes("_on_get_secret_name_action", config, ingresses, deferred,
                  _on_get_secret_name_action(config,
                      Begin(status, ingresses, secrets), env),
                  env)

Next ==
    \/ ConfigChanged
    \/ RelationJoined
    \/ RelationBroken
    \/ ReemitDeferred
    \/ PebbleReady
    \/ GetSecretNameAction

Spec == Init /\ [][Next]_vars

---------------------------------------------------------------------------
\* The derivation of the secret name, for hostnames of every shape: the
\* unit is related and configured for one hostname, and the handlers that
\* derive the name run for it.

\* A letter of either case, a digit, and characters outside [0-9a-zA-Z],
\* the "-" among them.
NameAlphabet == { "a", "Z", "0", ".", "-", "_" }

NameHostnames == UNION { [1..n -> NameAlphabet] : n \in 0..MaxLen }

NameInit ==
    /\ ingresses = <<AppName>>
    /\ \E h \in NameHostnames :
          config = [email |-> "foo@li.sh", agree_tos |-> TRUE,
                    service_hostname |-> h, dry_run |-> FALSE]
    /\ secrets = <<>>
    /\ status = MaintenanceStatus
    /\ deferred = 0
    /\ creates = [n \in SecretNames |-> [issued |-> 0, created |-> 0]]
    /\ pass = NoPass
    /\ trace = <<>>

\* The config-changed hook, dispatched with the options as they are.
ConfigChangedSame ==
    \E env \in Envs :
        Completes("_on_config_changed", config, ingresses, deferred,
                  _on_config_changed(config,
                      Begin(status, ingresses, secrets), env),
                  env)

NameNext ==
    \/ ConfigChangedSame
    \/ ReemitDeferred
    \/ GetSecretNameAction

NameSpec == NameInit /\ [][NameNext]_vars

---------------------------------------------------------------------------
\* The renew-certificate action on a unit that is related and configured.

RenewInit ==
    /\ ingresses = <<AppName>>
    /\ \E h \in Hostnames, dry \in BOOLEAN :
          config = [email |-> "foo@li.sh", agree_tos |-> TRUE,
                    service_hostname |-> h, dry_run |-> dry]
    /\ secrets = <<>>
    /\ status = MaintenanceStatus
    /\ deferred = 0
    /\ creates = [n \in SecretNames |-> [issued |-> 0, created |-> 0]]
    /\ pass = NoPass
    /\ trace = <<>>

RenewCertificateAction ==
    \E env \in RenewEnvs :
        Completes("_on_renew_certificate_action", config, ingresses, deferred,
                  _on_renew_certificate_action(config,
                      Begin(status, ingresses, secrets), env),
                  env)

RenewNext ==
    \/ ConfigChangedSame
    \/ ReemitDeferred
    \/ RenewCertificateAction

RenewSpec == RenewInit /\ [][RenewNext]_vars

---------------------------------------------------------------------------
\* The unit on its way to the certificate: the workload stays connectable,
\* one ingress relation stays, email, agree-tos and a hostname stay as they
\* are, and the calls of the cluster API succeed; the probe and certbot
\* succeed or fail.  Config-changed events and deferred events keep being
\* delivered: the controller dispatches a hook that is due, and the
\* framework re-emits a deferred event with the next hook.

LiveInit ==
    /\ ingresses = <<AppName>>
    /\ \E h \in Hostnames \ {<<>>}, dry \in BOOLEAN :
          config = [email |-> "foo@li.sh", agree_tos |-> TRUE,
                    service_hostname |-> h, dry_run |-> dry]
    /\ secrets = <<>>
    /\ status = MaintenanceStatus
    /\ deferred = 0
    /\ creates = [n \in SecretNames |-> [issued |-> 0, created |-> 0]]
    /\ pass = NoPass
    /\ trace = <<>>

LiveEnvs == { e \in Envs : e.can_connect /\ e.list = 200 /\ e.create = 200 }

ConfigChangedLive ==
    \E env \in LiveEnvs :
        \E o \in { _on_config_changed(config,
                       Begin(status, ingresses, secrets), env) } :
            Completes("_on_config_changed", config, ingresses, deferred, o, env)

ReemitDeferredLive ==
    \E env \in LiveEnvs :
        /\ deferred > 0
        /\ \E o \in { _on_config_changed(config,
                          Begin(status, ingresses, secrets), env) } :
              Completes("_on_config_changed", config, ingresses, deferred - 1,
                        o, env)

PebbleReadyLive ==
    \E env \in LiveEnvs :
        Completes("_on_certbot_nginx_pebble_ready", config, ingresses, deferred,
                  _on_certbot_nginx_pebble_ready(config,
                      Begin(status, ingresses, secrets), env),
                  env)

GetSecretNameActionLive ==
    \E env \in LiveEnvs \cap ListEnvs :
        Completes("_on_get_secret_name_action", config, ingresses, deferred,
                  _on_get_secret_name_action(config,
                      Begin(status, ingresses, secrets), env),
                  env)

LiveNext ==
    \/ ConfigChangedLive
    \/ ReemitDeferredLive
    \/ PebbleReadyLive
    \/ GetSecretNameActionLive

LiveSpec ==
    /\ LiveInit
    /\ [][LiveNext]_vars
    /\ WF_vars(ConfigChangedLive)
    /\ WF_vars(ReemitDeferredLive)

---------------------------------------------------------------------------
\* What the last handler did.

AutomaticPass == pass.handler = "_on_config_changed"

\* The positions of the calls op of the last handler.
Calls(op) == { i \in 1..Len(trace) : trace[i].op = op }

Did(op) == Calls(op) # {}

\* The calls of the cluster API.
ApiCalls == Calls("list_namespaced_secret") \cup Calls("create_namespaced_secret")

\* The last handler created a secret.
CreatedSecret ==
    \E i \in Calls("create_namespaced_secret") : trace[i].rc = 200

\* The ensurer ran for a hostname, and the hostname's secret existed.
EnsuredExisting ==
    /\ AutomaticPass
    /\ Did("_ensure_certificate")
    /\ config.service_hostname # <<>>
    /\ secret_name(config.service_hostname) \in DOMAIN pass.pre.secrets

\* The ensurer ran for a hostname without a secret and got as far as the
\* set-up of the ingress route.
SetUpRoute == AutomaticPass /\ Did("update_config") /\ Did("push foo.test")

TrustStatus ==
    BlockedStatus("Insufficient permissions, try juju trust %s --scope=cluster",
                  AppName)

---------------------------------------------------------------------------
\* C1: the status _refresh_charm_status gives is that of the first failing
\* check, in the order connectivity, no relation, several relations, email,
\* agree-tos; it is Active when no check fails.
C1_FirstFailingCheck ==
    pass.handler \in {"_on_config_changed", "_on_certbot_nginx_pebble_ready"} =>
        LET n == Len(pass.pre.ingresses)
            e == pass.evaluated
        IN  /\ ~pass.can_connect =>
                e = WaitingStatus("Waiting for Pebble to be ready.", NoArg)
            /\ (pass.can_connect /\ n = 0) =>
                e = BlockedStatus("Needs an ingress relation.", NoArg)
            /\ (pass.can_connect /\ n > 1) =>
                e = BlockedStatus("Too many ingress relations.", NoArg)
            /\ (pass.can_connect /\ n = 1 /\ config.email = "") =>
                e = BlockedStatus("Please configure an email.", NoArg)
            /\ (pass.can_connect /\ n = 1 /\ config.email # ""
                    /\ ~config.agree_tos) =>
                e = BlockedStatus("Let's Encrypt requires an agreement to their Terms of Service. Run juju config %s agree-tos=true",
                                  AppName)
            /\ (pass.can_connect /\ n = 1 /\ config.email # ""
                    /\ config.agree_tos) =>
                e = ActiveStatus

\* Several checks fail at once and the first of them is reported.
C1_Witness ==
    /\ AutomaticPass
    /\ pass.can_connect
    /\ Len(pass.pre.ingresses) > 1
    /\ config.email = ""
    /\ ~config.agree_tos
    /\ pass.evaluated = BlockedStatus("Too many ingress relations.", NoArg)

EnsuredMissing ==
    /\ SetUpRoute
    /\ config.service_hostname # <<>>
    /\ secret_name(config.service_hostname) \notin DOMAIN pass.pre.secrets
    /\ Len(pass.pre.ingresses) = 1

\* The handler found the binding pointing elsewhere than at the hostname.
BindingChanged == pass.pre.ingresses[1] # config.service_hostname

\* C3 as claimed: a pass that changes the binding pushes the probe file and
\* ends Waiting without GET or certbot; a pass whose GET is answered with
\* another status than 200 ends Waiting without certbot; certbot runs only
\* in a pass that found the binding on the hostname and whose GET returned
\* 200, and that pass creates the secret and ends Active.
C3_IssuingPassCreatesSecret ==
    AutomaticPass =>
        /\ (EnsuredMissing /\ BindingChanged) =>
              /\ status.name = "waiting"
              /\ ~Did("requests.get")
              /\ ~Did("exec")
        /\ (\E i \in Calls("requests.get") : trace[i].rc \notin {0, 200}) =>
              /\ status.name = "waiting"
              /\ ~Did("exec")
        /\ Did("exec") =>
              /\ EnsuredMissing
              /\ ~BindingChanged
              /\ \E i \in Calls("requests.get") : trace[i].rc = 200
              /\ CreatedSecret
              /\ status = ActiveStatus

\* C3: as claimed, but the pass that runs certbot creates the secret and
\* ends Active only when certbot exits with 0 and the create call succeeds;
\* otherwise it creates no secret and ends with the error, or Blocked on 403.
C3_StepsInOrder ==
    AutomaticPass =>
        /\ (EnsuredMissing /\ BindingChanged) =>
              /\ status = WaitingStatus("Setting up an Ingress Route for %s's HTTP Challenge.",
                                        config.service_hostname)
              /\ ~Did("requests.get")
              /\ ~Did("exec")
              /\ secrets = pass.pre.secrets
        /\ (\E i \in Calls("requests.get") : trace[i].rc \notin {0, 200}) =>
              /\ status = WaitingStatus("Cannot reach test file using Ingress Route. Retrying.",
                                        NoArg)
              /\ ~Did("exec")
              /\ secrets = pass.pre.secrets
        /\ Did("exec") =>
              /\ EnsuredMissing
              /\ ~BindingChanged
              /\ \E i \in Calls("requests.get") :
                    /\ trace[i].rc = 200
                    /\ \A j \in Calls("exec") : i < j
              /\ IF /\ \A j \in Calls("exec") : trace[j].rc = 0
                    /\ \E j \in Calls("create_namespaced_secret") :
                          trace[j].rc = 200
                 THEN /\ secret_name(config.service_hostname) \in DOMAIN secrets
                      /\ status = ActiveStatus
                      /\ pass.raised = NoError
                 ELSE /\ secrets = pass.pre.secrets
                      /\ status # ActiveStatus
                      /\ (pass.raised # NoError \/ status = TrustStatus)

\* Certbot ran in a pass that found the binding on the hostname, and the
\* secret was created.
C3_Witness ==
    /\ AutomaticPass
    /\ Did("exec")
    /\ ~BindingChanged
    /\ CreatedSecret
    /\ status = ActiveStatus

C5_ForbiddenBlocksOthersPropagate ==
    AutomaticPass =>
        \A i \in ApiCalls :
            /\ trace[i].rc = 403 =>
                  /\ status = TrustStatus
                  /\ pass.raised = NoError
                  /\ pass.deferred = 0
            /\ trace[i].rc \notin {200, 403} =>
                  /\ pass.raised = Raise("ApiException", trace[i].rc, "", NoArg)
                  /\ status # TrustStatus

\* The creation of the secret was forbidden, after certbot had run.
C5_Witness ==
    /\ AutomaticPass
    /\ \E i \in Calls("create_namespaced_secret") : trace[i].rc = 403
    /\ status = TrustStatus

\* The secret n was issued a create call by the last handler.
IssuedNow(n) ==
    \E i \in Calls("create_namespaced_secret") : trace[i].arg = n

\* C6 as claimed: a create call is issued at most once for a name and never
\* for a name the namespace holds, and no secret is ever deleted.
C6_CreateIssuedOnce ==
    \A n \in SecretNames :
        /\ creates[n].issued <= 1
        /\ IssuedNow(n) => n \notin DOMAIN pass.pre.secrets
        /\ n \in DOMAIN pass.pre.secrets => n \in DOMAIN secrets

\* C6: a create call is issued only for a name the namespace does not hold,
\* so at most one create call per name creates a secret (a call that failed
\* is issued again by a later pass); no handler deletes or changes a secret
\* that exists.
C6_CreateOnlyAbsent ==
    \A n \in SecretNames :
        /\ creates[n].created <= 1
        /\ IssuedNow(n) => n \notin DOMAIN pass.pre.secrets
        /\ n \in DOMAIN pass.pre.secrets =>
              (n \in DOMAIN secrets /\ secrets[n] = pass.pre.secrets[n])
        /\ n \in DOMAIN secrets <=> creates[n].created = 1

\* A create call failed and a later one created the secret.
C6_Witness ==
    \E n \in SecretNames :
        /\ creates[n].issued = 2
        /\ creates[n].created = 1
        /\ IssuedNow(n)
        /\ n \in DOMAIN secrets

C8_BindingKeepsHostname ==
    (AutomaticPass /\ CreatedSecret) =>
        ingresses = <<config.service_hostname>>

\* C9 as claimed: whenever a handler has finished and the status is Active
\* or Blocked, every ingress binding holds the application's name.
C9_BindingAtRest ==
    (pass.handler # "none" /\ status.name \in {"active", "blocked"}) =>
        \A i \in 1..Len(ingresses) : ingresses[i] = AppName

ActionPass == pass.handler = "_on_get_secret_name_action"

\* One of the conditions of the get-secret-name action is not met.
ActionUnmet ==
    \/ config.email = ""
    \/ ~config.agree_tos
    \/ config.service_hostname = <<>>
    \/ secret_name(config.service_hostname) \notin DOMAIN secrets

---------------------------------------------------------------------------
AlphaNum == Digits \cup LowerCase \cup UpperCase

\* The name both flows are to use for the hostname h.
DerivedName(h) ==
    [i \in 1..(Len(h) + 4) |->
        IF i > Len(h) THEN <<"-", "t", "l", "s">>[i - Len(h)]
        ELSE IF h[i] \in AlphaNum THEN h[i] ELSE "-"]

\* C11: for every hostname h the secret name is h with every character
\* outside [0-9a-zA-Z] replaced by "-", followed by "-tls": it has
\* len(h)+4 characters, all of them of [0-9a-zA-Z-]; and it is the name the
\* automatic flow lists and creates the secret under and the name the
\* get-secret-name action lists and returns.
C11_SecretNameDerivation ==
    LET h == config.service_hostname
        n == secret_name(h)
    IN  /\ n = DerivedName(h)
        /\ Len(n) = Len(h) + 4
        /\ \A i \in 1..Len(n) : n[i] \in AlphaNum \cup {"-"}
        /\ \A i \in ApiCalls : trace[i].arg = DerivedName(h)
        /\ \A m \in DOMAIN secrets : m = DerivedName(h)
        /\ (ActionPass /\ pass.raised = NoError) => pass.result = DerivedName(h)
        /\ (AutomaticPass /\ pass.evaluated = ActiveStatus /\ h # <<>>) =>
              Did("list_namespaced_secret")

\* The action returned the name of a hostname of characters outside
\* [0-9a-zA-Z], under which the automatic flow had created the secret.
C11_Witness ==
    /\ ActionPass
    /\ config.service_hostname = <<"_", ".">>
    /\ pass.result = <<"-", "-", "-", "t", "l", "s">>
    /\ DOMAIN secrets = { <<"-", "-", "-", "t", "l", "s">> }

---------------------------------------------------------------------------
\* The certbot command of a pass without and with the dry-run flag.
CertbotCommand(c) ==
    <<"certbot", "certonly", "--agree-tos", "-n", "-m", c.email,
      "-d", c.service_hostname, "--webroot", "--webroot-path",
      "/usr/share/nginx/html">>

DryRunFlagged ==
    /\ pass.command # <<>>
    /\ pass.command[Len(pass.command)] = "--dry-run"

\* The body of a TLS secret holding the base64 encodings of cert and key.
TlsBody(cert, key) ==
    [type |-> "kubernetes.io/tls", tls_crt |-> [b64 |-> cert],
     tls_key |-> [b64 |-> key]]

FakeBody ==
    TlsBody([text |-> "fake-cert", host |-> NoArg],
            [text |-> "fake-key", host |-> NoArg])

PulledBody(h) ==
    TlsBody([text |-> "fullchain.pem", host |-> h],
            [text |-> "privkey.pem", host |-> h])

Pulls == Calls("pull fullchain.pem") \cup Calls("pull privkey.pem")

\* The secret of the configured hostname holds the body b.
Wrote(b) ==
    /\ secret_name(config.service_hostname) \in DOMAIN secrets
    /\ secrets[secret_name(config.service_hostname)] = b

\* C12 as claimed: the pass that runs certbot with dry-run set adds
\* --dry-run, pulls no file and writes the secret with the base64 of
\* fake-cert and fake-key; with dry-run unset it runs certbot without the
\* flag and writes the base64 of the pulled fullchain.pem and privkey.pem.
C12_IssuingPassWritesSecret ==
    (AutomaticPass /\ Did("exec")) =>
        IF config.dry_run
        THEN /\ DryRunFlagged
             /\ Pulls = {}
             /\ Wrote(FakeBody)
        ELSE /\ ~DryRunFlagged
             /\ Wrote(PulledBody(config.service_hostname))

\* C12: the pass that runs certbot runs it with --dry-run added exactly
\* when dry-run is set.  With dry-run set it pulls no file; with dry-run
\* unset and certbot exiting with 0 it pulls fullchain.pem and privkey.pem
\* of the hostname, after the command.  The secret is written only when
\* certbot exits with 0 and the create call succeeds, and then holds the
\* base64 of fake-cert and fake-key with dry-run set and the base64 of the
\* two pulled files with dry-run unset; otherwise no secret is written.
C12_DryRunPlaceholders ==
    (AutomaticPass /\ Did("exec")) =>
        LET h == config.service_hostname
            ok == \A i \in Calls("exec") : trace[i].rc = 0
        IN  /\ Cardinality(Calls("exec")) = 1
            /\ DryRunFlagged <=> config.dry_run
            /\ pass.command =
                  CertbotCommand(config)
                    \o (IF config.dry_run THEN <<"--dry-run">> ELSE <<>>)
            /\ config.dry_run => Pulls = {}
            /\ (~config.dry_run /\ ok) =>
                  \E i \in Calls("exec") :
                    \E j \in Calls("pull fullchain.pem") :
                      \E k \in Calls("pull privkey.pem") :
                        /\ i < j /\ j < k
                        /\ trace[j].arg = h /\ trace[k].arg = h
                        /\ \A m \in Calls("create_namespaced_secret") : k < m
            /\ (~config.dry_run /\ ~ok) => Pulls = {}
            /\ CreatedSecret =>
                  /\ ok
                  /\ Wrote(IF config.dry_run THEN FakeBody ELSE PulledBody(h))
            /\ ~CreatedSecret => secrets = pass.pre.secrets
            /\ (ok /\ \A m \in Calls("create_namespaced_secret") :
                         trace[m].rc = 200) => CreatedSecret

\* A dry run wrote the secret of the placeholders without pulling a file.
C12_Witness ==
    /\ AutomaticPass
    /\ config.dry_run
    /\ DryRunFlagged
    /\ CreatedSecret
    /\ Pulls = {}
    /\ Wrote(FakeBody)

---------------------------------------------------------------------------
\* The ensurer ran with the service-hostname option unset.
EnsuredNoHostname ==
    /\ AutomaticPass
    /\ Did("_ensure_certificate")
    /\ config.service_hostname = <<>>

\* C13: with an empty service-hostname the ensurer returns at once: it
\* makes no call of the cluster API, of the relation data, of the workload
\* or of HTTP, defers nothing, raises nothing, leaves the binding and the
\* secrets as they were, and the status is the Active of the evaluation.
C13_NoHostnameNoAction ==
    EnsuredNoHostname =>
        /\ trace = <<Step("_ensure_certificate", <<>>, 0)>>
        /\ ApiCalls = {}
        /\ pass.command = <<>>
        /\ pass.deferred = 0
        /\ pass.raised = NoError
        /\ ingresses = pass.pre.ingresses
        /\ secrets = pass.pre.secrets
        /\ pass.evaluated = ActiveStatus
        /\ status = ActiveStatus

\* The ensurer ran without a hostname while the binding pointed at the
\* hostname of an earlier pass.
C13_Witness ==
    /\ EnsuredNoHostname
    /\ status = ActiveStatus
    /\ Len(ingresses) = 1
    /\ ingresses[1] # AppName

---------------------------------------------------------------------------
\* C14 as claimed: every pass of a lifecycle handler (pebble-ready,
\* config-changed, relation-joined, relation-broken) whose status
\* evaluation is Active runs the ensurer in that pass, and with a hostname
\* configured the ensurer starts work for it by looking for its secret.
C14_ActivePassConverges ==
    (/\ pass.handler \in {"_on_config_changed",
                          "_on_certbot_nginx_pebble_ready"}
     /\ pass.evaluated = ActiveStatus) =>
        /\ Did("_ensure_certificate")
        /\ config.service_hostname # <<>> =>
              \E i \in Calls("list_namespaced_secret") :
                  trace[i].arg = secret_name(config.service_hostname)

---------------------------------------------------------------------------
LifecyclePass ==
    pass.handler \in {"_on_config_changed", "_on_certbot_nginx_pebble_ready"}

\* The last lifecycle handler, run again on the relation data it found,
\* with the configuration it read, on the secrets secs and with the
\* outcomes env.
Rerun(secs, env) ==
    IF pass.handler = "_on_config_changed"
    THEN _on_config_changed(config,
             Begin(NoStatus, pass.pre.ingresses, secs), env)
    ELSE _on_certbot_nginx_pebble_ready(config,
             Begin(NoStatus, pass.pre.ingresses, secs), env)

\* The executions that agree with the last handler on the connectivity of
\* the workload.
SameConnectivity == { e \in Envs : e.can_connect = pass.can_connect }

\* C15 as claimed: the status at the end of a handler is a function of the
\* configuration, the connectivity and the relation data alone: run on the
\* same three with any secrets and any outcomes of the probe, of certbot
\* and of the cluster API, the handler ends with the same status.
C15_EndStatusPure ==
    LifecyclePass =>
        \A env \in SameConnectivity :
            \A secs \in {<<>>, pass.pre.secrets, secrets} :
                Rerun(secs, env).status = status

\* C15: the status evaluation of a lifecycle handler is a function of the
\* configuration, the connectivity and the number of ingress relations
\* alone.  The status at the end of the handler is that evaluation unless
\* the evaluation is Active and the ensurer works for a hostname: then it
\* is Waiting while the route is set up, while the probe is not answered
\* with 200, or when the generation fails with an error, Blocked with the
\* juju trust message after a 403, and Active otherwise.
C15_EvaluationPure ==
    LifecyclePass =>
        LET h == config.service_hostname
        IN  /\ \A env \in SameConnectivity :
                  \A secs \in {<<>>, pass.pre.secrets, secrets} :
                      Rerun(secs, env).evaluated = pass.evaluated
            /\ pass.evaluated.name \in {"waiting", "blocked", "active"}
            /\ status # pass.evaluated =>
                  /\ AutomaticPass
                  /\ pass.evaluated = ActiveStatus
                  /\ h # <<>>
                  /\ \/ /\ status = WaitingStatus("Setting up an Ingress Route for %s's HTTP Challenge.", h)
                        /\ pass.deferred = 1
                     \/ /\ status = WaitingStatus("Cannot reach test file using Ingress Route. Retrying.", NoArg)
                        /\ pass.deferred = 1
                     \/ /\ status = WaitingStatus("Generating CA-verified certificate for %s", h)
                        /\ pass.raised # NoError
                     \/ /\ status = TrustStatus
                        /\ \E i \in ApiCalls : trace[i].rc = 403

\* A pass evaluated Active ended Waiting for the route, where the same pass
\* with the probe answered 200 would have ended Active.
C15_Witness ==
    /\ AutomaticPass
    /\ pass.evaluated = ActiveStatus
    /\ status = WaitingStatus("Cannot reach test file using Ingress Route. Retrying.", NoArg)
    /\ \E env \in SameConnectivity :
          Rerun(pass.pre.secrets, env).status = ActiveStatus

---------------------------------------------------------------------------
\* The probe of the last handler found the hostname not resolvable:
\* requests.get raised.
Unresolvable == \E i \in Calls("requests.get") : trace[i].rc = 0

\* C16 as claimed: an automatic pass for a hostname without a secret that
\* finds the hostname not resolvable ends Blocked with "Cannot resolve
\* hostname: '<hostname>'", runs no certbot command and defers nothing.
C16_UnresolvableBlocks ==
    (AutomaticPass /\ EnsuredMissing /\ Unresolvable) =>
        /\ status = BlockedStatus("Cannot resolve hostname: '%s'",
                                  config.service_hostname)
        /\ ~Did("exec")
        /\ pass.deferred = 0

---------------------------------------------------------------------------
RenewPass == pass.handler = "_on_renew_certificate_action"

\* A check of the route by the last handler succeeded.
RouteChecked == \E i \in Calls("requests.get") : trace[i].rc = 200

Resolved == \E i \in Calls("gethostbyname") : trace[i].rc = 0

Renewed(h) == <<"Certificate renewed for ">> \o h

SecretCalls ==
    Calls("create_namespaced_secret") \cup Calls("replace_namespaced_secret")

---------------------------------------------------------------------------
RouteUnreachable ==
    Raise("CertbotK8sError", 0, "Cannot reach test file using Ingress Route.",
          NoArg)

---------------------------------------------------------------------------
\* The last pass suspended: it changed the binding, or its probe was
\* answered with another status than 200.
Suspended ==
    \/ EnsuredMissing /\ BindingChanged
    \/ \E i \in Calls("requests.get") : trace[i].rc \notin {0, 200}

SuspendedStatus ==
    \/ status = WaitingStatus("Setting up an Ingress Route for %s's HTTP Challenge.",
                              config.service_hostname)
    \/ status = WaitingStatus("Cannot reach test file using Ingress Route. Retrying.",
                              NoArg)

---------------------------------------------------------------------------
\* The secret of the hostname exists and the unit is Active.
Converged ==
    /\ secret_name(config.service_hostname) \in DOMAIN secrets
    /\ status = ActiveStatus

\* Every probe of the last handler was answered with 200.
ProbeSucceeds == \A i \in Calls("requests.get") : trace[i].rc = 200

\* Every certbot command of the last handler exited with 0.
CertbotSucceeds == \A i \in Calls("exec") : trace[i].rc = 0

\* C20 as claimed: with the workload connectable, one relation, the
\* options fixed, the cluster API succeeding and events delivered, if the
\* probe is answered with 200 from some point on, then from some point on
\* the secret of the hostname exists and the status is Active.
C20_ConvergesOnProbe == (<>[]ProbeSucceeds) => <>[]Converged

\* C20: under the same conditions, if from some point on the probe is
\* answered with 200 and the certbot command exits with 0, then from some
\* point on the secret of the hostname exists and the status is Active.
C20_Converges == (<>[](ProbeSucceeds /\ CertbotSucceeds)) => <>[]Converged

\* A pass after the convergence found the secret and left the unit Active.
C20_Witness ==
    /\ Converged
    /\ EnsuredExisting
    /\ creates[secret_name(config.service_hostname)].created = 1
    /\ pass.deferred = 0

---------------------------------------------------------------------------
\* The step of a get-secret-name action.
ActionStep == pass'.handler = "_on_get_secret_name_action"

\* C21: a get-secret-name action, whether it succeeds or fails, leaves the
\* unit status, the ingress binding, the secrets, the configuration and the
\* deferred events as they were, and makes no call of the workload or of
\* the relation data: its only calls are the authentication and the listing
\* of the secrets.  When it fails it sets no result, and it lists the
\* secrets only when email, agree-tos and service-hostname are all set.
C21_ActionIsPureQuery ==
    [][ActionStep =>
          /\ status' = status
          /\ ingresses' = ingresses
          /\ secrets' = secrets
          /\ config' = config
          /\ deferred' = deferred
          /\ creates' = creates
          /\ pass'.command = <<>>
          /\ \A i \in 1..Len(trace') :
                trace'[i].op \in {"load_incluster_config",
                                   "list_namespaced_secret"}
          /\ pass'.raised # NoError => pass'.result = NoArg
          /\ (\E i \in 1..Len(trace') :
                  trace'[i].op = "list_namespaced_secret") =>
                /\ config.email # ""
                /\ config.agree_tos
                /\ config.service_hostname # <<>>
    ]_vars

\* The action failed for a hostname without a secret, after it had listed
\* the secrets, on a unit that waits for its route.
C21_Witness ==
    /\ ActionPass
    /\ Did("list_namespaced_secret")
    /\ pass.raised = Raise("Exception", 0, "Secret for '%s' does not exist.",
                           config.service_hostname)
    /\ pass.result = NoArg
    /\ status.name = "waiting"
    /\ ingresses = <<config.service_hostname>>

---------------------------------------------------------------------------
\* The hostnames the secret n was made for: the hostname of the files
\* pulled into it (a dry run leaves no hostname in the secret).
MadeFor(n) == { secrets[n].tls_crt.b64.host, secrets[n].tls_key.b64.host }

\* The automatic flow found the secret of the hostname and returned.
ShortCircuited ==
    /\ EnsuredExisting
    /\ \E i \in Calls("list_namespaced_secret") : trace[i].rc = 200
    /\ ~Did("get_relation")

\* C22 as claimed: secrets are per hostname, so the secret that lets the
\* automatic flow for a hostname return as existing, or the get-secret-name
\* action for it succeed, was made for that hostname and for no other.
C22_SecretsPerHostname ==
    /\ ShortCircuited =>
          MadeFor(secret_name(config.service_hostname))
              \subseteq {config.service_hostname, NoArg}
    /\ (ActionPass /\ pass.raised = NoError) =>
          MadeFor(secret_name(config.service_hostname))
              \subseteq {config.service_hostname, NoArg}

---------------------------------------------------------------------------
\* The last pass was one of _on_config_changed that returned normally.
ReturnedNormally == AutomaticPass /\ pass.raised = NoError

\* C23: at the end of a config-changed or ingress-relation pass that
\* returns normally, a status of Active means that no hostname is
\* configured or that the secret of the configured hostname exists.
C23_ActiveMeansSecret ==
    (ReturnedNormally /\ status = ActiveStatus) =>
        \/ config.service_hostname = <<>>
        \/ secret_name(config.service_hostname) \in DOMAIN secrets

\* A relation pass ended Active for a hostname whose secret it found.
C23_Witness ==
    /\ ReturnedNormally
    /\ status = ActiveStatus
    /\ config.service_hostname # <<>>
    /\ secret_name(config.service_hostname) \in DOMAIN pass.pre.secrets
    /\ secret_name(config.service_hostname) \in DOMAIN secrets
    /\ Len(pass.pre.ingresses) = 1
    /\ Len(ingresses) = 1
    /\ ~Did("exec")

---------------------------------------------------------------------------
\* The calls of the last handler that read or write the ingress binding.
BindingCalls == Calls("get_relation") \cup Calls("update_config")

\* C24: a handler reads or writes the ingress binding only in a pass of
\* _on_config_changed that found exactly one ingress relation: get_relation
\* returns that relation, never None and never an error for several, and
\* the other relations' data are never written.
C24_BindingOnlyWithOneRelation ==
    /\ BindingCalls # {} =>
          /\ AutomaticPass
          /\ pass.evaluated = ActiveStatus
          /\ Len(pass.pre.ingresses) = 1
          /\ \A i \in Calls("get_relation") : trace[i].rc = 1
    /\ pass.raised.type \notin {"AttributeError", "TooManyRelatedAppsError"}
    /\ (pass.handler # "none" /\ Len(pass.pre.ingresses) # 1) =>
          ingresses = pass.pre.ingresses

\* A pass with two ingress relations, and with everything else in place
\* for the certificate of a hostname, left the binding alone.
C24_Witness ==
    /\ AutomaticPass
    /\ pass.can_connect
    /\ Len(pass.pre.ingresses) = 2
    /\ config.email # ""
    /\ config.agree_tos
    /\ config.service_hostname # <<>>
    /\ secret_name(config.service_hostname) \notin DOMAIN secrets
    /\ BindingCalls = {}
    /\ pass.pre.ingresses[1] = config.service_hostname

---------------------------------------------------------------------------
\* The secret n holds the placeholders of a dry run.
HoldsPlaceholders(n) == n \in DOMAIN secrets /\ secrets[n] = FakeBody

\* C25: once a secret holds the placeholders of a dry run, every later
\* step leaves it holding them, and a later automatic pass for a hostname
\* of that secret, with dry-run set or not, runs no certbot command and
\* issues no create call.
C25_DryRunSecretStays ==
    [][\A n \in SecretNames :
          HoldsPlaceholders(n) =>
              /\ n \in DOMAIN secrets'
              /\ secrets'[n] = FakeBody
              /\ (/\ pass'.handler = "_on_config_changed"
                  /\ config'.service_hostname # <<>>
                  /\ secret_name(config'.service_hostname) = n) =>
                    /\ pass'.command = <<>>
                    /\ \A i \in 1..Len(trace') :
                          trace'[i].op \notin {"exec",
                                                "create_namespaced_secret"}
    ]_vars

\* With dry-run switched off, a pass found the secret of the placeholders
\* and returned.
C25_Witness ==
    /\ ShortCircuited
    /\ ~config.dry_run
    /\ HoldsPlaceholders(secret_name(config.service_hostname))
    /\ status = ActiveStatus

====
